---------------------------- MODULE Spec2Model ----------------------------
(***************************************************************************)
(* nmap_oui_update.py: the update of nmap's MAC prefix table from the IEEE *)
(* OUI registry.  main() runs five stages in order: the privilege check,   *)
(* the backup of the installed table, the download of the registry, the    *)
(* merge of the records the table does not hold yet, and the installation  *)
(* of the merged table.                                                    *)
(*                                                                         *)
(* A text is a sequence of code points, as a str of Python is; the data    *)
(* of a file is a sequence of bytes, and a text is written to a file and   *)
(* read from it in UTF-8.  A file is a record [exists, data] and the file  *)
(* system is a function from paths to files.                               *)
(***************************************************************************)
EXTENDS Integers, Sequences, FiniteSets, TLC

(***************************************************************************)
(* Bounds of the model.                                                    *)
(***************************************************************************)
\* The registry document holds at most this many lines.
MaxDocLines == 2
\* main() is run at most this many times in a row.
MaxRuns == 2

(***************************************************************************)
(* Text.                                                                   *)
(***************************************************************************)
\* The characters U+0020 to U+007E, in the order of their code points; the
\* place of U+0060 is left empty.
Printable ==
  <<" ", "!", "\"", "#", "$", "%", "&", "'", "(", ")", "*", "+", ",", "-", ".", "/",
    "0", "1", "2", "3", "4", "5", "6", "7", "8", "9", ":", ";", "<", "=", ">", "?",
    "@", "A", "B", "C", "D", "E", "F", "G", "H", "I", "J", "K", "L", "M", "N", "O",
    "P", "Q", "R", "S", "T", "U", "V", "W", "X", "Y", "Z", "[", "\\", "]", "^", "_",
    "", "a", "b", "c", "d", "e", "f", "g", "h", "i", "j", "k", "l", "m", "n", "o",
    "p", "q", "r", "s", "t", "u", "v", "w", "x", "y", "z", "{", "|", "}", "~">>

\* ord(c) of a character of ASCII, written as a string of one character.
Ord(c) ==
  CASE c = "\t" -> 9
    [] c = "\n" -> 10
    [] c = "\r" -> 13
    [] OTHER -> 31 + (CHOOSE i \in 1..Len(Printable) : Printable[i] = c)

\* The text whose characters are chars.
Str(chars) == [i \in 1..Len(chars) |-> Ord(chars[i])]

LF == 10
CR == 13
TAB == 9
SPACE == 32
\* U+00A0, U+2003: two of the characters str.strip() removes.
NBSP == 160
EM_SPACE == 8195
\* U+D800: the first of the surrogates U+D800 to U+DFFF, which no text in
\* UTF-8 holds.
SURROGATE == 55296

\* The marker "(base 16)" of lines 101, 129 and 130.
MARKER == Str(<<"(", "b", "a", "s", "e", " ", "1", "6", ")">>)
\* {6} of the pattern of line 130.
OUI_LEN == 6
\* res.status_code == 200 of line 101.
HTTP_OK == 200
\* The values main() returns, and the status of an uncaught exception.
EXIT_OK == 0
EXIT_NOT_ROOT == 1
EXIT_FETCH == 2
EXIT_INSTALL == 4
EXIT_UNCAUGHT == 1
\* No exit status yet: main() is still running.
RUNNING == -1

\* The paths of the files the program reads and writes.
NMAP_OUI == <<"nmap-mac-prefixes", 0>>
OUI_DATA == <<"ieee_oui_data.txt", 0>>
UPDATED == <<"nmap-mac-prefixes_updated", 0>>

\* [0-9A-Fa-f] of the pattern of line 130.
HexChars == (48..57) \cup (65..70) \cup (97..102)

\* The characters str.strip() removes, those str.isspace() holds of: U+0009
\* to U+000D, U+001C to U+0020, U+0085, U+00A0, U+1680, U+2000 to U+200A,
\* U+2028, U+2029, U+202F, U+205F and U+3000.
Whitespace ==
  (9..13) \cup (28..32) \cup {133, 160, 5760} \cup (8192..8202)
    \cup {8232, 8233, 8239, 8287, 12288}

\* needle in hay, of Python's str.
IsSubstring(needle, hay) ==
  \E i \in 0..(Len(hay) - Len(needle)) :
    SubSeq(hay, i + 1, i + Len(needle)) = needle

\* The index of the first c in s from position i on, or Len(s) + 1.
IndexFrom(s, c, i) ==
  IF \E j \in i..Len(s) : s[j] = c
  THEN CHOOSE j \in i..Len(s) : s[j] = c /\ \A k \in i..(j - 1) : s[k] # c
  ELSE Len(s) + 1

\* s.split("\n"): the pieces between the line feeds, at least one piece.
RECURSIVE SplitLines(_)
SplitLines(s) ==
  LET k == IndexFrom(s, LF, 1)
  IN  IF k > Len(s) THEN <<s>>
      ELSE <<SubSeq(s, 1, k - 1)>> \o SplitLines(SubSeq(s, k + 1, Len(s)))

\* s.strip(): s without its leading and trailing whitespace.
RECURSIVE LStrip(_)
LStrip(s) ==
  IF s # <<>> /\ Head(s) \in Whitespace THEN LStrip(Tail(s)) ELSE s

RECURSIVE RStrip(_)
RStrip(s) ==
  IF s # <<>> /\ s[Len(s)] \in Whitespace
  THEN RStrip(SubSeq(s, 1, Len(s) - 1))
  ELSE s

Strip(s) == RStrip(LStrip(s))

(***************************************************************************)
(* UTF-8, the encoding of open(..., encoding='utf-8').                     *)
(***************************************************************************)
\* The bytes of one character.
Utf8(c) ==
  IF c < 128 THEN <<c>>
  ELSE IF c < 2048 THEN <<192 + (c \div 64), 128 + (c % 64)>>
  ELSE IF c < 65536
    THEN <<224 + (c \div 4096), 128 + ((c \div 64) % 64), 128 + (c % 64)>>
  ELSE <<240 + (c \div 262144), 128 + ((c \div 4096) % 64),
         128 + ((c \div 64) % 64), 128 + (c % 64)>>

\* The encoder takes every character but the surrogates: no character of
\* the text is one.
Encodable(text) ==
  {i \in 1..Len(text) :
     text[i] \notin 0..1114111 \/ text[i] \in 55296..57343} = {}

\* text.encode('utf-8'): the bytes of the characters, one after the other.
RECURSIVE Utf8Encode(_)
Utf8Encode(text) ==
  IF text = <<>> THEN <<>>
  ELSE IF Len(text) = 1 THEN Utf8(text[1])
  ELSE LET half == Len(text) \div 2
       IN  Utf8Encode(SubSeq(text, 1, half))
             \o Utf8Encode(SubSeq(text, half + 1, Len(text)))

\* A byte 10xxxxxx, which goes on a character.
Continuation(b) == b \in 128..191

\* The number of bytes of the character that the byte b starts, or 0 if no
\* character starts with b.
Utf8Width(b) ==
  IF b < 128 THEN 1
  ELSE IF b \in 194..223 THEN 2
  ELSE IF b \in 224..239 THEN 3
  ELSE IF b \in 240..244 THEN 4
  ELSE 0

\* The positions of bytes where no byte goes on a character.
Utf8Starts(bytes) ==
  SelectSeq([i \in 1..Len(bytes) |-> i], LAMBDA i : ~Continuation(bytes[i]))

\* The bytes i to j are one character: the first byte gives their number,
\* the others go on, and the character is neither written in more bytes
\* than it needs, nor a surrogate, nor above U+10FFFF.
Utf8Valid(bytes, i, j) ==
  LET b == bytes[i]
  IN  /\ Utf8Width(b) = j - i + 1
      /\ \A k \in (i + 1)..j : Continuation(bytes[k])
      /\ b = 224 => bytes[i + 1] >= 160
      /\ b = 237 => bytes[i + 1] <= 159
      /\ b = 240 => bytes[i + 1] >= 144
      /\ b = 244 => bytes[i + 1] <= 143

\* The character of the bytes i to j.
Utf8Char(bytes, i, j) ==
  LET b == bytes[i]
      x(k) == bytes[i + k] % 64
  IN  CASE j = i -> b
        [] j = i + 1 -> (b % 32) * 64 + x(1)
        [] j = i + 2 -> (b % 16) * 4096 + x(1) * 64 + x(2)
        [] OTHER -> (b % 8) * 262144 + x(1) * 4096 + x(2) * 64 + x(3)

\* The end of the character that starts at the n-th of starts.
Utf8End(bytes, starts, n) ==
  IF n < Len(starts) THEN starts[n + 1] - 1 ELSE Len(bytes)

\* bytes.decode('utf-8') does not raise UnicodeDecodeError: the first byte
\* starts a character and no start is that of bytes that are not one.
Decodable(bytes) ==
  LET starts == Utf8Starts(bytes)
      Bad(n) == ~Utf8Valid(bytes, starts[n], Utf8End(bytes, starts, n))
  IN  /\ bytes # <<>> => ~Continuation(bytes[1])
      /\ {n \in 1..Len(starts) : Bad(n)} = {}

\* bytes.decode('utf-8'), of bytes that can be decoded.
Utf8Decode(bytes) ==
  LET starts == Utf8Starts(bytes)
  IN  [n \in 1..Len(starts) |->
         Utf8Char(bytes, starts[n], Utf8End(bytes, starts, n))]

\* Universal newlines: "\r\n" and a lone "\r" are read as "\n".  The "\n"
\* of a "\r\n" is dropped and every "\r" is read as "\n".
Newlines(text) ==
  LET Kept(i) == ~(text[i] = LF /\ i > 1 /\ text[i - 1] = CR)
      kept == SelectSeq([i \in 1..Len(text) |-> i], Kept)
  IN  [j \in 1..Len(kept) |->
         IF text[kept[j]] = CR THEN LF ELSE text[kept[j]]]

\* A text file read in text mode (open(..., 'rt', encoding='utf-8')): the
\* bytes are decoded and the line ends are translated.
ReadText(bytes) == Newlines(Utf8Decode(bytes))

\* A text written in text mode (open(..., 'wt', encoding='utf-8')) on
\* Linux: "\n" is written as os.linesep, which is "\n", and every other
\* character as it is; the text is then encoded.
WriteText(text) ==
  Utf8Encode([i \in 1..Len(text) |-> IF text[i] = LF THEN LF ELSE text[i]])

\* The number of spaces of line from position i on.
RECURSIVE SpaceRun(_, _)
SpaceRun(line, i) ==
  IF i <= Len(line) /\ line[i] = SPACE THEN 1 + SpaceRun(line, i + 1) ELSE 0

\* re.search(r"^([0-9A-Fa-f]{6}) +\(base 16\)\t\t(.*)", line): six hex
\* characters at the start, one or more spaces, the marker, two tabs, and
\* the rest up to the end of the line.  [ok |-> FALSE] is Python's None.
ReSearch(line) ==
  LET n == Len(line)
      k == SpaceRun(line, OUI_LEN + 1)
      m == OUI_LEN + k + 1
      t == m + Len(MARKER)
      e == IndexFrom(line, LF, t + 2)
  IN  IF /\ n >= OUI_LEN
         /\ \A i \in 1..OUI_LEN : line[i] \in HexChars
         /\ k >= 1
         /\ n >= t + 1
         /\ SubSeq(line, m, t - 1) = MARKER
         /\ line[t] = TAB
         /\ line[t + 1] = TAB
      THEN [ok |-> TRUE, oui |-> SubSeq(line, 1, OUI_LEN),
            org |-> SubSeq(line, t + 2, e - 1)]
      ELSE [ok |-> FALSE, oui |-> <<>>, org |-> <<>>]

(***************************************************************************)
(* Files.                                                                  *)
(***************************************************************************)
NoFile == [exists |-> FALSE, data |-> <<>>]
File(bytes) == [exists |-> TRUE, data |-> bytes]

\* What a file opened for writing may hold when the write of bytes fails:
\* any proper prefix of bytes, which may end within a character.
PartialWrites(bytes) == {File(SubSeq(bytes, 1, k)) : k \in 0..(Len(bytes) - 1)}

\* backups/nmap-mac-prefixes.<timestamp>: dst of lines 90 and 91.
BackupPath(timestamp) == <<"backups/nmap-mac-prefixes", timestamp>>

Timestamps == 1..MaxRuns
Paths == {NMAP_OUI, OUI_DATA, UPDATED} \cup {BackupPath(t) : t \in Timestamps}

(***************************************************************************)
(* The inputs: the installed tables and the lines of the registry.         *)
(***************************************************************************)
\* "001122 Acme Corp\n"
TableAcme ==
  Str(<<"0", "0", "1", "1", "2", "2", " ", "A", "c", "m", "e", " ",
        "C", "o", "r", "p", "\n">>)
\* "FACADE C0FFEE\xa0Co\n001122 Acme": no line feed ends the last line, the
\* prefix C0FFEE occurs in an organization name, and U+00A0 takes two bytes.
TableNoNL ==
  Str(<<"F", "A", "C", "A", "D", "E", " ", "C", "0", "F", "F", "E", "E">>)
    \o <<NBSP>>
    \o Str(<<"C", "o", "\n",
             "0", "0", "1", "1", "2", "2", " ", "A", "c", "m", "e">>)
\* The installed table as main() finds it when it is run for the first
\* time: missing, or one of the tables.
Tables == {NoFile, File(Utf8Encode(TableAcme)), File(Utf8Encode(TableNoNL))}
\* The bytes of "FACADE C0FFEE\xa0" without the last: what an install of
\* TableNoNL that failed within U+00A0 left.
TableCut ==
  Utf8Encode(Str(<<"F", "A", "C", "A", "D", "E", " ",
                   "C", "0", "F", "F", "E", "E">>)) \o <<194>>

\* "001122     (base 16)\t\tAcme Corp\r": a line of a CR LF document.
LineAcme ==
  Str(<<"0", "0", "1", "1", "2", "2", " ", " ", " ", " ", " ",
        "(", "b", "a", "s", "e", " ", "1", "6", ")", "\t", "\t",
        "A", "c", "m", "e", " ", "C", "o", "r", "p", "\r">>)
\* "AABBCC     (base 16)\t\tWidget Inc"
LineWidget ==
  Str(<<"A", "A", "B", "B", "C", "C", " ", " ", " ", " ", " ",
        "(", "b", "a", "s", "e", " ", "1", "6", ")", "\t", "\t",
        "W", "i", "d", "g", "e", "t", " ", "I", "n", "c">>)
\* "C0FFEE (base 16)\t\t AABBCC\u2003": the organization is another line's
\* prefix, between a space and U+2003, which takes three bytes.
LineCafe ==
  Str(<<"C", "0", "F", "F", "E", "E", " ",
        "(", "b", "a", "s", "e", " ", "1", "6", ")", "\t", "\t",
        " ", "A", "A", "B", "B", "C", "C">>)
    \o <<EM_SPACE>>
\* "00-11-22 (hex)\t\tAcme": a line without the marker.
LineHex ==
  Str(<<"0", "0", "-", "1", "1", "-", "2", "2", " ",
        "(", "h", "e", "x", ")", "\t", "\t", "A", "c", "m", "e">>)
\* "AABBCC (base 16) \tInc": the marker, but not the record shape.
LineBad ==
  Str(<<"A", "A", "B", "B", "C", "C", " ",
        "(", "b", "a", "s", "e", " ", "1", "6", ")", " ", "\t",
        "I", "n", "c">>)
RegistryLines == {LineAcme, LineWidget, LineCafe, LineHex, LineBad}

\* The registries: at most MaxDocLines lines.
Registries == UNION {[1..n -> RegistryLines] : n \in 0..MaxDocLines}

\* The document the registry serves: every line, ended by a line feed.
RECURSIVE DocBody(_)
DocBody(reg) ==
  IF reg = <<>> THEN <<>> ELSE Head(reg) \o <<LF>> \o DocBody(Tail(reg))

\* The body of a response that is not the registry document.
ErrorPage == Str(<<"N", "o", "t", " ", "F", "o", "u", "n", "d">>)

\* The document, decoded by requests to a text that holds a surrogate.
Mangled(reg) == DocBody(reg) \o <<SURROGATE>>

NoResponse == [status |-> 0, text |-> <<>>]
\* What requests.get(IEEE_URL) may return.
Responses(reg) ==
  {[status |-> s, text |-> t] :
     s \in {HTTP_OK, 404}, t \in {DocBody(reg), ErrorPage, Mangled(reg)}}

(***************************************************************************)
(* The state.                                                              *)
(***************************************************************************)
VARIABLES
  fs,           \* the file system: the file at each path
  backup_dir,   \* whether the directory backups exists
  registry,     \* the lines of the document the registry serves
  euid,         \* the effective user id of the process
  now,          \* the clock, in seconds
  runs,         \* the runs of main() so far, this one included
  pc,           \* the stage main() is at
  exit_code,    \* the status the process exited with, or RUNNING
  raised,       \* the exception that ended the run, or ""
  backup_copy,  \* main()'s backup_copy: the path backup_nmap_oui_file returned
  res,          \* the response of requests.get
  backup_data,  \* parse_oui_file's buffer
  oui_lines,    \* oui_data.split("\n")
  line_no,      \* the line the loop of parse_oui_file is at
  new_count,    \* parse_oui_file's counter
  stages,       \* history: the stages this run entered, in order
  net_calls,    \* history: the requests this run issued
  fs0,          \* history: the file system when this run started
  dir0,         \* history: backup_dir when this run started
  last          \* history: how the run before this one ended

vars ==
  <<fs, backup_dir, registry, euid, now, runs, pc, exit_code, raised,
    backup_copy, res, backup_data, oui_lines, line_no, new_count,
    stages, net_calls, fs0, dir0, last>>

\* The variables of one run of main().
locals == <<backup_copy, res, backup_data, oui_lines, line_no, new_count>>

\* What a run leaves in last: how it ended and what it worked on.
Ended ==
  [exit_code |-> exit_code, stages |-> stages, text |-> res.text,
   backup_copy |-> backup_copy, new_count |-> new_count, installed |-> fs[NMAP_OUI]]
NoRun ==
  [exit_code |-> RUNNING, stages |-> <<>>, text |-> <<>>,
   backup_copy |-> NMAP_OUI, new_count |-> 0, installed |-> NoFile]

\* The script is started for the first time: the working directory holds
\* no backups directory and no working file.
Init ==
  /\ \E table \in Tables :
       fs = [p \in Paths |-> IF p = NMAP_OUI THEN table ELSE NoFile]
  /\ backup_dir = FALSE
  /\ registry \in Registries
  /\ euid \in {0, 1000}
  /\ now = 1
  /\ runs = 1
  /\ pc = "privilege"
  /\ exit_code = RUNNING
  /\ raised = ""
  /\ backup_copy = NMAP_OUI
  /\ res = NoResponse
  /\ backup_data = <<>>
  /\ oui_lines = <<>>
  /\ line_no = 0
  /\ new_count = 0
  /\ stages = <<>>
  /\ net_calls = 0
  /\ fs0 = fs
  /\ dir0 = backup_dir
  /\ last = NoRun

\* The working files an earlier run left in the working directory: the
\* document it fetched and the table it merged.
EarlierRaw == File(WriteText(DocBody(<<LineAcme>>)))
EarlierUpdated == File(WriteText(TableAcme))

\* The script is started in a fresh working directory, or in one where an
\* earlier run left its backups directory and its working files; the
\* installed table may be what a failed install left.
InitRun ==
  /\ \E table \in Tables \cup {File(TableCut)}, earlier \in BOOLEAN :
       /\ fs = [p \in Paths |->
                  IF p = NMAP_OUI THEN table
                  ELSE IF earlier /\ p = OUI_DATA THEN EarlierRaw
                  ELSE IF earlier /\ p = UPDATED THEN EarlierUpdated
                  ELSE NoFile]
       /\ backup_dir = earlier
  /\ registry \in Registries
  /\ euid \in {0, 1000}
  /\ now = 1
  /\ runs = 1
  /\ pc = "privilege"
  /\ exit_code = RUNNING
  /\ raised = ""
  /\ backup_copy = NMAP_OUI
  /\ res = NoResponse
  /\ backup_data = <<>>
  /\ oui_lines = <<>>
  /\ line_no = 0
  /\ new_count = 0
  /\ stages = <<>>
  /\ net_calls = 0
  /\ fs0 = fs
  /\ dir0 = backup_dir
  /\ last = NoRun

(***************************************************************************)
(* The stages of main().                                                   *)
(***************************************************************************)
\* A changed is_root: any effective user id passes.
IsRootAnyUser == euid >= 0

\* is_root(): os.geteuid() == 0.
IsRoot == euid = 0

\* A changed main(): the download is called before the backup.
NextStageFetchFirst(stage) ==
  CASE stage = "privilege" -> "fetch"
    [] stage = "fetch" -> "backup"
    [] stage = "backup" -> "parse"
    [] stage = "parse" -> "install"
    [] stage = "install" -> "done"

\* The order in which main() calls the stages.
NextStage(stage) ==
  CASE stage = "privilege" -> "backup"
    [] stage = "backup" -> "fetch"
    [] stage = "fetch" -> "parse"
    [] stage = "parse" -> "install"
    [] stage = "install" -> "done"

\* An exception nothing catches: the interpreter prints the traceback and
\* the process exits with status 1.
Raise(exception) ==
  /\ pc' = "exit"
  /\ exit_code' = EXIT_UNCAUGHT
  /\ raised' = exception

\* main() returns code.
Return(code) ==
  /\ pc' = "exit"
  /\ exit_code' = code
  /\ raised' = raised

\* main() goes on with the stage after this one.
Continue(stage) ==
  /\ pc' = stage
  /\ exit_code' = exit_code
  /\ raised' = raised

\* Lines 163 to 169: the banner and the privilege check.
PrivilegeCheck ==
  /\ pc = "privilege"
  /\ stages' = Append(stages, "privilege")
  /\ IF IsRoot THEN Continue(NextStage("privilege")) ELSE Return(EXIT_NOT_ROOT)
  /\ UNCHANGED <<fs, backup_dir, registry, euid, now, runs, locals,
                 net_calls, fs0, dir0, last>>

\* backup_nmap_oui_file(), called at line 172.  os.mkdir and
\* shutil.copyfile raise OSError when they fail; copyfile opens the source
\* before the destination, and a destination it has opened holds what was
\* written of the source before the failure.
BackupNmapOuiFile ==
  /\ pc = "backup"
  /\ stages' = Append(stages, "backup")
  /\ LET dst == BackupPath(now)
     IN  \/ /\ ~backup_dir
            /\ Raise("OSError")
            /\ UNCHANGED <<fs, backup_dir, backup_copy>>
         \/ /\ backup_dir' = TRUE
            /\ Raise("OSError")
            /\ \/ fs' = fs
               \/ /\ fs[NMAP_OUI].exists
                  /\ \E partial \in PartialWrites(fs[NMAP_OUI].data) :
                       fs' = [fs EXCEPT ![dst] = partial]
            /\ UNCHANGED backup_copy
         \/ /\ fs[NMAP_OUI].exists
            /\ backup_dir' = TRUE
            /\ fs' = [fs EXCEPT ![dst] = File(fs[NMAP_OUI].data)]
            /\ backup_copy' = dst
            /\ Continue(NextStage("backup"))
  /\ UNCHANGED <<registry, euid, now, runs, res, backup_data, oui_lines,
                 line_no, new_count, net_calls, fs0, dir0, last>>

\* A changed line 101: the body is not looked at.
ResponseValidStatusOnly(r) == r.status = HTTP_OK

\* Line 101: res.status_code == 200 and "(base 16)" in res.text.
ResponseValid(r) == r.status = HTTP_OK /\ IsSubstring(MARKER, r.text)

\* download_ieee_oui_file(), called at line 175.  requests.get raises when
\* the connection fails; open raises OSError when the raw file cannot be
\* opened, and write and flush when the body cannot be written, the file
\* then holding what was written of it.  write raises UnicodeEncodeError,
\* with nothing written to the file it has opened, when the body cannot be
\* encoded.
DownloadIeeeOuiFile ==
  /\ pc = "fetch"
  /\ stages' = Append(stages, "fetch")
  /\ net_calls' = net_calls + 1
  /\ \/ /\ Raise("ConnectionError")
        /\ UNCHANGED <<fs, res>>
     \/ \E r \in Responses(registry) :
          /\ res' = r
          /\ IF ResponseValid(r)
             THEN \/ /\ Encodable(r.text)
                     /\ fs' = [fs EXCEPT ![OUI_DATA] = File(WriteText(r.text))]
                     /\ Continue(NextStage("fetch"))
                  \/ /\ ~Encodable(r.text)
                     /\ fs' = [fs EXCEPT ![OUI_DATA] = File(<<>>)]
                     /\ Raise("UnicodeEncodeError")
                  \/ /\ Raise("OSError")
                     /\ \/ fs' = fs
                        \/ /\ Encodable(r.text)
                           /\ \E partial \in PartialWrites(WriteText(r.text)) :
                                fs' = [fs EXCEPT ![OUI_DATA] = partial]
             ELSE /\ fs' = fs
                  /\ Return(EXIT_FETCH)
  /\ UNCHANGED <<backup_dir, registry, euid, now, runs, backup_copy,
                 backup_data, oui_lines, line_no, new_count, fs0, dir0, last>>

\* A changed line 132: the prefix is looked for at the start of the buffer
\* only.
NotSeenAtStart(oui, buffer) ==
  ~(Len(buffer) >= Len(oui) /\ SubSeq(buffer, 1, Len(oui)) = oui)

\* Line 132: oui not in backup_data.
NotSeen(oui, buffer) == ~IsSubstring(oui, buffer)

\* A changed line 133: the organization is not trimmed.
RecordUntrimmed(oui, org) == oui \o <<SPACE>> \o org \o <<LF>>

\* A changed line 133: the record is written without its prefix.
RecordWithoutPrefix(oui, org) == Strip(org) \o <<LF>>

\* Line 133: f"{oui} {org.strip()}\n".
Record(oui, org) == oui \o <<SPACE>> \o Strip(org) \o <<LF>>

\* What open(path, 'rt', encoding='utf-8') and read() raise: OSError when
\* the file cannot be opened or read, UnicodeDecodeError when its bytes are
\* not UTF-8.
ReadErrors(path) ==
  {"OSError"} \cup
    IF fs[path].exists /\ ~Decodable(fs[path].data)
    THEN {"UnicodeDecodeError"} ELSE {}

\* The file can be read as text.
Readable(path) == fs[path].exists /\ Decodable(fs[path].data)

\* parse_oui_file(backup), lines 117 to 126: both files are read as text,
\* the backup file first.
ParseOpen ==
  /\ pc = "parse"
  /\ stages' = Append(stages, "parse")
  /\ \/ /\ \E exception \in ReadErrors(backup_copy) : Raise(exception)
        /\ UNCHANGED <<backup_data, oui_lines, line_no, new_count>>
     \/ /\ Readable(backup_copy)
        /\ backup_data' = ReadText(fs[backup_copy].data)
        /\ \/ /\ \E exception \in ReadErrors(OUI_DATA) : Raise(exception)
              /\ UNCHANGED <<oui_lines, line_no, new_count>>
           \/ /\ Readable(OUI_DATA)
              /\ oui_lines' = SplitLines(ReadText(fs[OUI_DATA].data))
              /\ line_no' = 1
              /\ new_count' = 0
              /\ Continue("parse_loop")
  /\ UNCHANGED <<fs, backup_dir, registry, euid, now, runs, backup_copy, res,
                 net_calls, fs0, dir0, last>>

\* Lines 128 to 138: one line of the loop.  match is None for a line that
\* holds the marker and not the record shape, and match.groups() raises.
ParseLine ==
  /\ pc = "parse_loop"
  /\ line_no <= Len(oui_lines)
  /\ LET line == oui_lines[line_no]
         match == ReSearch(line)
     IN  IF IsSubstring(MARKER, line)
         THEN IF ~match.ok
              THEN /\ Raise("AttributeError")
                   /\ UNCHANGED <<backup_data, new_count, line_no>>
              ELSE /\ IF NotSeen(match.oui, backup_data)
                      THEN /\ backup_data' = backup_data \o Record(match.oui, match.org)
                           /\ new_count' = new_count + 1
                      ELSE UNCHANGED <<backup_data, new_count>>
                   /\ line_no' = line_no + 1
                   /\ Continue("parse_loop")
         ELSE /\ line_no' = line_no + 1
              /\ Continue("parse_loop")
              /\ UNCHANGED <<backup_data, new_count>>
  /\ UNCHANGED <<fs, backup_dir, registry, euid, now, runs, backup_copy, res,
                 oui_lines, stages, net_calls, fs0, dir0, last>>

\* A changed line 142: the merge stage reports new records whatever it found.
FoundNewAlways(count) == count >= 0

\* Line 142: new_count != 0, the value parse_oui_file returns.
FoundNew(count) == count # 0

\* Lines 139 to 152, and line 179 of main(): the merged table is written
\* when records were added, and only then is the install stage run.  open
\* raises OSError when the merged file cannot be opened, and write and flush
\* when the buffer cannot be written, the file then holding what was written
\* of it; write raises UnicodeEncodeError for a buffer that cannot be
\* encoded.
ParseFinish ==
  /\ pc = "parse_loop"
  /\ line_no > Len(oui_lines)
  /\ IF FoundNew(new_count)
     THEN \/ /\ Encodable(backup_data)
             /\ fs' = [fs EXCEPT ![UPDATED] = File(WriteText(backup_data))]
             /\ Continue(NextStage("parse"))
          \/ /\ ~Encodable(backup_data)
             /\ fs' = [fs EXCEPT ![UPDATED] = File(<<>>)]
             /\ Raise("UnicodeEncodeError")
          \/ /\ Raise("OSError")
             /\ \/ fs' = fs
                \/ /\ Encodable(backup_data)
                   /\ \E partial \in PartialWrites(WriteText(backup_data)) :
                        fs' = [fs EXCEPT ![UPDATED] = partial]
     ELSE /\ fs' = fs
          /\ Continue("done")
  /\ UNCHANGED <<backup_dir, registry, euid, now, runs, locals,
                 stages, net_calls, fs0, dir0, last>>

\* Line 159: apply_updated_file() returns True.
ApplyResult == TRUE

\* apply_updated_file(), called at line 181.  shutil.copyfile raises OSError
\* when it fails; an installed table it has opened holds what was written of
\* the merged file before the failure.
ApplyUpdatedFile ==
  /\ pc = "install"
  /\ stages' = Append(stages, "install")
  /\ \/ /\ Raise("OSError")
        /\ \/ fs' = fs
           \/ \E partial \in PartialWrites(fs[UPDATED].data) :
                fs' = [fs EXCEPT ![NMAP_OUI] = partial]
     \/ /\ fs' = [fs EXCEPT ![NMAP_OUI] = File(fs[UPDATED].data)]
        /\ IF ~ApplyResult
           THEN Return(EXIT_INSTALL)
           ELSE Continue(NextStage("install"))
  /\ UNCHANGED <<backup_dir, registry, euid, now, runs, locals,
                 net_calls, fs0, dir0, last>>

\* Lines 185 and 186: main() returns 0.
MainDone ==
  /\ pc = "done"
  /\ Return(EXIT_OK)
  /\ UNCHANGED <<fs, backup_dir, registry, euid, now, runs, locals,
                 stages, net_calls, fs0, dir0, last>>

(***************************************************************************)
(* The environment: the script is run again, by any user, within the       *)
(* second of the run before or later; the registry publishes a line.       *)
(***************************************************************************)
NewRun ==
  /\ pc = "exit"
  /\ runs < MaxRuns
  /\ runs' = runs + 1
  /\ now' \in {now, now + 1}
  /\ euid' \in {0, 1000}
  /\ pc' = "privilege"
  /\ exit_code' = RUNNING
  /\ raised' = ""
  /\ backup_copy' = NMAP_OUI
  /\ res' = NoResponse
  /\ backup_data' = <<>>
  /\ oui_lines' = <<>>
  /\ line_no' = 0
  /\ new_count' = 0
  /\ stages' = <<>>
  /\ net_calls' = 0
  /\ fs0' = fs
  /\ dir0' = backup_dir
  /\ last' = Ended
  /\ UNCHANGED <<fs, backup_dir, registry>>

Publish ==
  /\ pc = "exit"
  /\ runs < MaxRuns
  /\ Len(registry) < MaxDocLines
  /\ \E line \in RegistryLines : registry' = Append(registry, line)
  /\ UNCHANGED <<fs, backup_dir, euid, now, runs, pc, exit_code, raised,
                 locals, stages, net_calls, fs0, dir0, last>>

\* One run of main(), in any working directory.
NextRun ==
  \/ PrivilegeCheck
  \/ BackupNmapOuiFile
  \/ DownloadIeeeOuiFile
  \/ ParseOpen
  \/ ParseLine
  \/ ParseFinish
  \/ ApplyUpdatedFile
  \/ MainDone

SpecRun == InitRun /\ [][NextRun]_vars

\* Runs of main() one after the other from the first, the registry growing
\* between them.
Next ==
  \/ PrivilegeCheck
  \/ BackupNmapOuiFile
  \/ DownloadIeeeOuiFile
  \/ ParseOpen
  \/ ParseLine
  \/ ParseFinish
  \/ ApplyUpdatedFile
  \/ MainDone
  \/ NewRun
  \/ Publish

Spec == Init /\ [][Next]_vars

(***************************************************************************)
(* parse_oui_file() on its own: it is called on a backup file and a        *)
(* fetched document, and called again on the same document with either the *)
(* backup file of the call before or the merged file that call wrote.      *)
(***************************************************************************)
InitMerge ==
  /\ registry \in Registries
  /\ \E table \in {<<>>, TableAcme, TableNoNL} :
       fs = [p \in Paths |->
               IF p \in {NMAP_OUI, BackupPath(1)} THEN File(Utf8Encode(table))
               ELSE IF p = OUI_DATA THEN File(WriteText(DocBody(registry)))
               ELSE NoFile]
  /\ backup_dir = TRUE
  /\ euid = 0
  /\ now = 1
  /\ runs = 1
  /\ pc = "parse"
  /\ exit_code = RUNNING
  /\ raised = ""
  /\ backup_copy = BackupPath(1)
  /\ res = [status |-> HTTP_OK, text |-> DocBody(registry)]
  /\ backup_data = <<>>
  /\ oui_lines = <<>>
  /\ line_no = 0
  /\ new_count = 0
  /\ stages = <<>>
  /\ net_calls = 0
  /\ fs0 = fs
  /\ dir0 = backup_dir
  /\ last = NoRun

\* parse_oui_file has returned: main() is at line 179.
ParseReturned == pc \in {NextStage("parse"), "done"}

ParseAgain ==
  /\ ParseReturned
  /\ runs < MaxRuns
  /\ runs' = runs + 1
  /\ last' = Ended
  /\ \/ backup_copy' = backup_copy
     \/ fs[UPDATED].exists /\ backup_copy' = UPDATED
  /\ pc' = "parse"
  /\ backup_data' = <<>>
  /\ oui_lines' = <<>>
  /\ line_no' = 0
  /\ new_count' = 0
  /\ stages' = <<>>
  /\ fs0' = fs
  /\ UNCHANGED <<fs, backup_dir, registry, euid, now, exit_code, raised, res,
                 net_calls, dir0>>

NextMerge ==
  \/ ParseOpen
  \/ ParseLine
  \/ ParseFinish
  \/ ParseAgain

SpecMerge == InitMerge /\ [][NextMerge]_vars

(***************************************************************************)
(* The properties.                                                         *)
(***************************************************************************)
\* The order of the five stages.
StageOrder == <<"privilege", "backup", "fetch", "parse", "install">>

\* The stage this run entered last.
LastStage == IF stages = <<>> THEN "" ELSE stages[Len(stages)]

\* This run entered the stage.
Entered(stage) == \E i \in 1..Len(stages) : stages[i] = stage

\* The working files and the installed table are as the run found them.
WorkingFilesUntouched ==
  /\ fs[OUI_DATA] = fs0[OUI_DATA]
  /\ fs[UPDATED] = fs0[UPDATED]
InstalledUntouched == fs[NMAP_OUI] = fs0[NMAP_OUI]

\* C1: a run whose privilege check fails exits with status 1, and nothing
\* else has happened in it: no stage but the check was entered, no request
\* was issued, and no file or directory was created or written.
C1_NotRootExitsUntouched ==
  (euid # 0 /\ pc # "privilege") =>
    /\ pc = "exit"
    /\ exit_code = EXIT_NOT_ROOT
    /\ raised = ""
    /\ stages = <<"privilege">>
    /\ net_calls = 0
    /\ fs = fs0
    /\ backup_dir = dir0

\* C1 happens: a run by another user than root has exited, in a working
\* directory where an earlier run left its files.
C1_Witness ==
  /\ euid # 0
  /\ pc = "exit"
  /\ exit_code = EXIT_NOT_ROOT
  /\ fs[UPDATED].exists

\* C2: the stages are entered in the order privilege check, backup, fetch,
\* merge, install; when the request is issued the backup file holds the
\* installed table; and a run whose backup stage failed has stopped with no
\* request issued, no working file written and the installed table as it was.
C2_BackupBeforeFetch ==
  /\ Len(stages) <= Len(StageOrder)
  /\ stages = SubSeq(StageOrder, 1, Len(stages))
  /\ net_calls > 0 =>
       /\ backup_copy = BackupPath(now)
       /\ fs[backup_copy] = File(fs0[NMAP_OUI].data)
       /\ fs0[NMAP_OUI].exists
  /\ (LastStage = "backup" /\ raised # "") =>
       /\ pc = "exit"
       /\ net_calls = 0
       /\ WorkingFilesUntouched
       /\ InstalledUntouched

\* C2 happens: the backup stage failed although the installed table is
\* there, leaving a backup file that holds a part of the table.
C2_Witness ==
  /\ stages = <<"privilege", "backup">>
  /\ raised = "OSError"
  /\ fs[NMAP_OUI].exists
  /\ fs[BackupPath(now)].exists
  /\ fs[BackupPath(now)].data # <<>>
  /\ fs[BackupPath(now)] # fs[NMAP_OUI]

\* The fetch stage of this run failed to open, to encode or to write the
\* raw file.
RawWriteFailed == LastStage = "fetch" /\ raised # ""

\* C3: once the fetch stage has a response, the raw file holds exactly the
\* body, in UTF-8, if the status is 200 and the body holds the marker, and
\* the run goes on, unless the raw file could not be opened or written: the
\* raw file is then as it was, empty, or holds a part of the bytes of the
\* body, and the run has stopped with status 1.  For every other response
\* the raw file is as it was and the run has exited with status 2.  In
\* neither of the cases where the run has stopped was merge or install
\* entered, and the installed table and the merged file are as they were.
C3_RawFileIffValidResponse ==
  res # NoResponse =>
    IF res.status = 200 /\ IsSubstring(MARKER, res.text)
    THEN IF RawWriteFailed
         THEN /\ \/ fs[OUI_DATA] = fs0[OUI_DATA]
                 \/ fs[OUI_DATA] = File(<<>>)
                 \/ /\ Encodable(res.text)
                    /\ LET body == Utf8Encode(res.text)
                           size == Len(fs[OUI_DATA].data)
                       IN  /\ fs[OUI_DATA].exists
                           /\ size < Len(body)
                           /\ fs[OUI_DATA].data = SubSeq(body, 1, size)
              /\ pc = "exit"
              /\ exit_code = EXIT_UNCAUGHT
              /\ fs[UPDATED] = fs0[UPDATED]
              /\ InstalledUntouched
         ELSE /\ fs[OUI_DATA].exists
              /\ Decodable(fs[OUI_DATA].data)
              /\ Utf8Decode(fs[OUI_DATA].data) = res.text
              /\ ~(pc = "exit" /\ LastStage = "fetch")
    ELSE /\ fs[OUI_DATA] = fs0[OUI_DATA]
         /\ pc = "exit"
         /\ exit_code = EXIT_FETCH
         /\ raised = ""
         /\ LastStage = "fetch"
         /\ fs[UPDATED] = fs0[UPDATED]
         /\ InstalledUntouched

\* C3 happens: the response has status 404, the run has exited with status
\* 2, and the raw file an earlier run left is as it was.
C3_Witness ==
  /\ res.status = 404
  /\ pc = "exit"
  /\ exit_code = EXIT_FETCH
  /\ fs[OUI_DATA] = EarlierRaw

\* The merge stage of this run has returned with no new record.
MergedNothing ==
  /\ pc \in {"done", "exit"}
  /\ LastStage = "parse"
  /\ raised = ""

\* C4: a merge stage that found no new record wrote no merged file (one an
\* earlier run left is as it was); the install stage is not entered, the
\* installed table is as it was, and main() exits with status 0.
C4_NoNewRecordsNoInstall ==
  (pc \in {"done", "exit"} /\ Entered("parse") /\ raised = "" /\ new_count = 0) =>
    /\ fs[UPDATED] = fs0[UPDATED]
    /\ ~Entered("install")
    /\ InstalledUntouched
    /\ pc = "exit" => exit_code = EXIT_OK

\* C4 happens: a run has exited after a merge stage that found nothing,
\* with the merged file an earlier run left still there.
C4_Witness ==
  /\ MergedNothing
  /\ new_count = 0
  /\ pc = "exit"
  /\ exit_code = EXIT_OK
  /\ fs[UPDATED].exists

\* The install stage of this run failed.
InstallFailed == pc = "exit" /\ LastStage = "install" /\ raised # ""

\* C5: a run that stopped because the install stage failed has exited with
\* status 4, which is none of 0, 1 and 2, and the merged file is in place.
C5_InstallFailureExits4 ==
  InstallFailed =>
    /\ exit_code = EXIT_INSTALL
    /\ exit_code \notin {EXIT_OK, EXIT_NOT_ROOT, EXIT_FETCH}
    /\ fs[UPDATED].exists

\* The lines of a text: the pieces its line feeds end, and the rest if the
\* text does not end with a line feed.
LinesOf(text) ==
  LET pieces == SplitLines(text)
  IN  IF pieces[Len(pieces)] = <<>>
      THEN SubSeq(pieces, 1, Len(pieces) - 1)
      ELSE pieces

\* The merge stage of this run has written the merged file.
MergedWritten ==
  /\ pc \in {"install", "done", "exit"}
  /\ Entered("parse")
  /\ ~(LastStage = "parse" /\ raised # "")
  /\ new_count > 0

\* C6: when the merge stage has written the merged file, the first N lines
\* of that file, N being the number of lines of the backup file, are the
\* lines of the backup file.
C6_FirstLinesAreBackupLines ==
  MergedWritten =>
    LET before == LinesOf(fs[backup_copy].data)
        after == LinesOf(fs[UPDATED].data)
    IN  /\ Len(after) >= Len(before)
        /\ SubSeq(after, 1, Len(before)) = before

\* parse_oui_file has been called again and has returned.
SecondCallReturned == runs >= 2 /\ ParseReturned

\* C7, as stated: a second call of parse_oui_file on the backup file and
\* the document of the first call finds no new record.
C7_SecondCallOnSameBackupFindsNothing ==
  (SecondCallReturned /\ backup_copy = last.backup_copy) => new_count = 0

\* C7, amended: a second call on the same document finds no new record when
\* its backup is the merged file the first call wrote; on the backup file of
\* the first call it finds as many new records as the first call did.
C7_SecondCallOnMergedFindsNothing ==
  SecondCallReturned =>
    /\ backup_copy = UPDATED => new_count = 0
    /\ backup_copy = last.backup_copy => new_count = last.new_count

\* C7 happens: the first call added a record, and the second call, on the
\* merged file, has returned.
C7_Witness ==
  /\ SecondCallReturned
  /\ backup_copy = UPDATED
  /\ last.backup_copy = BackupPath(1)
  /\ last.new_count > 0

\* A line that holds the marker and not the record shape.
Malformed(line) == IsSubstring(MARKER, line) /\ ~ReSearch(line).ok

\* C8: the loop of the merge stage steps over a line that holds the marker
\* and not the record shape: no error is raised, nothing is appended, the
\* counter is as it was, and the loop is at the next line.
C8_MalformedLineSkipped ==
  [][(pc = "parse_loop" /\ line_no <= Len(oui_lines)
        /\ Malformed(oui_lines[line_no]))
      => /\ pc' = "parse_loop"
         /\ raised' = ""
         /\ line_no' = line_no + 1
         /\ backup_data' = backup_data
         /\ new_count' = new_count]_vars

\* The buffer and the counter after the lines: each line of the record
\* shape whose prefix is not in the buffer so far adds its record.
RECURSIVE Merged(_, _, _)
Merged(buffer, count, lines) ==
  IF lines = <<>> THEN [buffer |-> buffer, count |-> count]
  ELSE LET m == ReSearch(Head(lines))
       IN  IF IsSubstring(MARKER, Head(lines)) /\ m.ok
              /\ ~IsSubstring(m.oui, buffer)
           THEN Merged(buffer \o m.oui \o <<SPACE>> \o Strip(m.org) \o <<LF>>,
                       count + 1, Tail(lines))
           ELSE Merged(buffer, count, Tail(lines))

\* The merge stage of this run has read the backup file and the raw file.
MergeRead == Entered("parse") /\ line_no > 0

\* C9: in the loop of the merge stage and after it, the buffer is the text
\* of the backup file followed, in the order of the document, by the record
\* "<prefix> <organization, trimmed>\n" of each line so far whose prefix was
\* not in the buffer when the line was reached, and the counter is the
\* number of these records.
C9_BufferIsBackupPlusUnseen ==
  MergeRead =>
    LET expected ==
          Merged(ReadText(fs[backup_copy].data), 0,
                 SubSeq(oui_lines, 1, line_no - 1))
    IN  /\ backup_data = expected.buffer
        /\ new_count = expected.count

\* "AABBCC Widget Inc\n"
RecordWidget ==
  Str(<<"A", "A", "B", "B", "C", "C", " ",
        "W", "i", "d", "g", "e", "t", " ", "I", "n", "c", "\n">>)

\* C9 happens: the table "001122 Acme Corp\n" and the lines of 001122 and
\* AABBCC give the one new record "AABBCC Widget Inc\n".
C9_Witness ==
  /\ registry = <<LineAcme, LineWidget>>
  /\ pc = "parse_loop"
  /\ line_no > Len(oui_lines)
  /\ new_count = 1
  /\ backup_data = TableAcme \o RecordWidget

\* The run before this one installed a merged table and exited with status
\* 0, and this run fetched the document that run fetched; no file failed
\* to be opened, read or written in this run.
RerunOfInstall ==
  /\ last.exit_code = EXIT_OK
  /\ last.stages = StageOrder
  /\ res.status = 200
  /\ res.text = last.text
  /\ raised # "OSError"

\* C10: a run that follows a run that installed, and fetches the same
\* document, has its backup from the table that run installed, finds no
\* new record, does not enter the install stage, leaves the installed table
\* as that run installed it, and exits with status 0.
C10_RerunChangesNothing ==
  RerunOfInstall =>
    /\ fs[backup_copy] = last.installed
    /\ new_count = 0
    /\ ~Entered("install")
    /\ fs[NMAP_OUI] = last.installed
    /\ pc = "exit" => (exit_code = EXIT_OK /\ raised = "")

\* C10 happens: such a run has exited.
C10_Witness ==
  /\ RerunOfInstall
  /\ pc = "exit"
  /\ Entered("parse")
  /\ last.new_count > 0

=============================================================================
